---------------------------- MODULE Spec2Model ----------------------------
(***************************************************************************)
(* Verification model of the bulk collection engine and the result cache   *)
(* of src/lib/cache-v2.ts:                                                 *)
(*   - TwitterServiceV2.throttleRequest        (Throttle Gate)             *)
(*   - TwitterServiceV2.retryWithIntelligentBackoff (Retry Policy)         *)
(*   - TwitterServiceV2.maximizeUserTweetCollection (Paginated Collector   *)
(*     and Result Assembler)                                               *)
(*   - MaximizedTwitterCache                   (Cache Store and Eviction)  *)
(*                                                                         *)
(* JavaScript runs one task at a time: a handler runs without interleaving *)
(* from one await to the next.  Every action below is one such stretch.    *)
(*                                                                         *)
(* Time is a discrete clock `now` (Date.now()).  The durations of the      *)
(* source (15 min window, 4 h cache life, 200 pages, 15000 tweets ...) are *)
(* scaled down to a few ticks / pages / tweets so that every run can be    *)
(* enumerated; each scaled definition says what the source value is.       *)
(***************************************************************************)
EXTENDS Integers, Sequences, FiniteSets, TLC

(***************************************************************************)
(* Bounds of the model.                                                    *)
(***************************************************************************)
\* last tick of the clock
MaxTime == 5
\* number of throttleRequest calls a gate-only run makes
MaxAcquires == 7
\* src/lib/cache-v2.ts:809 MAX_REQUESTS_PER_15_MINUTES = 50, scaled
MAX_REQUESTS_PER_15_MINUTES == 3
\* src/lib/cache-v2.ts:824 fifteenMinutes = 15 * 60 * 1000 ms, scaled to ticks
fifteenMinutes == 2
\* src/lib/cache-v2.ts:995 maxPages = 200, scaled
maxPages == 5
\* src/lib/cache-v2.ts:997 tweetsPerPage = 100, scaled: the largest page
tweetsPerPage == 2
\* src/lib/cache-v2.ts:998 targetTweetCount = 15000, scaled (as in the
\* source, fewer than maxPages full pages reach it)
targetTweetCount == 5
\* largest maxRetries a direct call of retryWithIntelligentBackoff passes
MaxAttempts == 3
\* number of loop iterations (page fetches) of one collection that are explored
MaxFetches == 7
\* src/lib/cache-v2.ts:116 CACHE_DURATION = 4 h, scaled to ticks
CACHE_DURATION == 2
\* src/lib/cache-v2.ts:117 MAX_STORAGE_SIZE = 50 MB, scaled to size units
MAX_STORAGE_SIZE == 8
\* number of cache operations in a run
MaxOps == 4
\* largest number of accounts passed to performIntelligentCleanup directly
MaxAccounts == 10

\* Date.now() when the browser session starts
SessionStart == 8
\* number of ticks the clock advances during a run of cache operations
MaxElapse == 3
\* number of media keys of a tweet and of media objects in the pool
\* handed to the media merge on its own
MaxMedia == 2

(***************************************************************************)
(* Program constants.                                                      *)
(***************************************************************************)
\* src/lib/cache-v2.ts:842 sleep(timeRemaining + 1000): the extra second,
\* rounded up to one tick of the clock
safetyMargin == 1
\* src/lib/cache-v2.ts:1000 maxEmptyPages = 3
maxEmptyPages == 3
\* src/lib/cache-v2.ts:883 maxRetries: number = 2
defaultMaxRetries == 2
\* src/lib/cache-v2.ts:897 waitTime = 3000 (ms)
rateLimitWait == 3000
\* src/lib/cache-v2.ts:914 delay = 2000 * attempt (ms)
baseDelay == 2000

\* error.code of the errors the upstream raises; 500 stands for every code
\* other than 429, 401, 403, 404 (an error without a code included)
ErrorCodes == {429, 401, 403, 404, 500}
\* lines 267-270: the 24 hours over which the recency score decays; the
\* cache lives 4 hours (line 116)
oneDay == 6 * CACHE_DURATION

\* `undefined` for a continuation token (falsy in `nextToken && ...`)
NoToken == 0
\* `undefined` for lastError / no error
NoError == [code |-> 0]

\* the flows (async call chains) that may use the one service instance
Flows == {"f1", "f2"}

VARIABLES
    now,              \* Date.now()
    flows,            \* the flows that run in this specification
    requestCount,     \* TwitterServiceV2.requestCount
    windowStartTime,  \* TwitterServiceV2.windowStartTime (0 = unset)
    tpc,              \* per flow: position in throttleRequest
    wakeAt,           \* per flow: earliest time its sleep() timer fires
    completions,      \* log: one record per completed throttleRequest
    quotaStatus       \* the value the last getQuotaStatus call returned

VARIABLES
    served,           \* upstream: number of tweets handed out so far (ids 1..served)
    issued,           \* upstream: number of continuation tokens handed out so far
    rpc,              \* position in retryWithIntelligentBackoff
    maxRetries,       \* its parameter maxRetries
    attempt,          \* its loop variable attempt
    lastError,        \* its local lastError
    opToken,          \* params.pagination_token the operation closure sends
    rresult,          \* the value it returned
    rerror,           \* the error it threw
    opLog,            \* log: what each invocation of operation() did, this call
    sleeps            \* log: the sleep() calls it made, this call

VARIABLES
    cpc,                    \* position in maximizeUserTweetCollection
    allTweets,
    allMediaIncludes,
    errors,
    nextToken,
    pagesProcessed,
    rateLimitHits,
    hasMoreData,
    shouldStop,
    consecutiveEmptyPages,
    result,                 \* the value maximizeUserTweetCollection returned
    fetches,                \* log: what each loop iteration began and ended with
    arrived                 \* log: the tweets of the pages received, in order

VARIABLES
    sessionStorage,   \* the two items of window.sessionStorage the cache uses
    ret,              \* the value the last cache operation returned
    op,               \* log: the last cache operation; expired: it found the
                      \* expiry passed; stale: an expired read happened and no
                      \* setAccountData since; of a setAccountData: data, the
                      \* account data passed, committed: setItem did not
                      \* throw, evicted: the size test ran the cleanup
    nops,             \* log: number of cache operations so far
    evIn,             \* the argument of a direct performIntelligentCleanup call
    evOut             \* the value that call returned

gateVars == <<requestCount, windowStartTime, tpc, wakeAt, completions>>

upVars == <<served, issued>>

retryVars == <<rpc, maxRetries, attempt, lastError, opToken, rresult, rerror, opLog, sleeps>>

collVars == <<cpc, allTweets, allMediaIncludes, errors, nextToken, pagesProcessed,
              rateLimitHits, hasMoreData, shouldStop, consecutiveEmptyPages, result,
              fetches, arrived>>

statusVars == <<quotaStatus>>

serviceVars == <<gateVars, upVars, retryVars, collVars, statusVars>>

cacheVars == <<sessionStorage, ret, op, nops>>

evictVars == <<evIn, evOut>>

storeVars == <<cacheVars, evictVars>>

vars == <<now, flows, gateVars, upVars, retryVars, collVars, statusVars,
          cacheVars, evictVars>>

(***************************************************************************)
(* The clock.                                                              *)
(***************************************************************************)
Tick ==
    /\ now < MaxTime
    /\ now' = now + 1
    /\ UNCHANGED <<flows, gateVars, upVars, retryVars, collVars>>
    /\ UNCHANGED <<storeVars, statusVars>>

(***************************************************************************)
(* Throttle Gate: throttleRequest, lines 822-851.                          *)
(***************************************************************************)
\* a flow reaches `await this.throttleRequest()` (lines 936, 1058)
AcquireCall(f) ==
    /\ f \in flows
    /\ tpc[f] \in {"idle", "ret"}
    /\ Len(completions) < MaxAcquires
    /\ tpc' = [tpc EXCEPT ![f] = "call"]
    /\ UNCHANGED <<now, flows, requestCount, windowStartTime, wakeAt, completions>>
    /\ UNCHANGED <<upVars, retryVars, collVars>>
    /\ UNCHANGED <<storeVars, statusVars>>

\* window state after lines 827-836: initialise, then roll over
WindowAfterCheck ==
    LET ws0 == IF windowStartTime = 0 THEN now ELSE windowStartTime
    IN  IF now - ws0 >= fifteenMinutes
        THEN [count |-> 0, start |-> now]
        ELSE [count |-> requestCount, start |-> ws0]

\* lines 823-842 and, when no wait is needed, 847-850
throttleRequest(f) ==
    /\ tpc[f] = "call"
    /\ LET w == WindowAfterCheck
       IN  IF w.count >= MAX_REQUESTS_PER_15_MINUTES
           THEN LET timeRemaining == fifteenMinutes - (now - w.start)
                IN  /\ requestCount' = w.count
                    /\ windowStartTime' = w.start
                    /\ wakeAt' = [wakeAt EXCEPT ![f] = now + timeRemaining + safetyMargin]
                    /\ tpc' = [tpc EXCEPT ![f] = "sleep"]
                    /\ UNCHANGED completions
           ELSE /\ requestCount' = w.count + 1
                /\ windowStartTime' = w.start
                /\ completions' = Append(completions,
                                         [flow |-> f, at |-> now, window |-> w.start])
                /\ tpc' = [tpc EXCEPT ![f] = "ret"]
                /\ UNCHANGED wakeAt
    /\ UNCHANGED <<now, flows, upVars, retryVars, collVars>>
    /\ UNCHANGED <<storeVars, statusVars>>

\* throttleWake without lines 843-844: the window is not reset after the wait
throttleWake_noReset(f) ==
    /\ tpc[f] = "sleep"
    /\ now >= wakeAt[f]
    /\ requestCount' = requestCount + 1
    /\ windowStartTime' = windowStartTime
    /\ completions' = Append(completions,
                             [flow |-> f, at |-> now, window |-> windowStartTime])
    /\ tpc' = [tpc EXCEPT ![f] = "ret"]
    /\ UNCHANGED <<now, flows, wakeAt, upVars, retryVars, collVars>>
    /\ UNCHANGED <<storeVars, statusVars>>

\* lines 843-850: the timer fired (no earlier than wakeAt)
throttleWake(f) ==
    /\ tpc[f] = "sleep"
    /\ now >= wakeAt[f]
    /\ requestCount' = 0 + 1
    /\ windowStartTime' = now
    /\ completions' = Append(completions, [flow |-> f, at |-> now, window |-> now])
    /\ tpc' = [tpc EXCEPT ![f] = "ret"]
    /\ UNCHANGED <<now, flows, wakeAt, upVars, retryVars, collVars>>
    /\ UNCHANGED <<storeVars, statusVars>>


\* lines 856-868: the value getQuotaStatus returns for the gate state
\* (count, start) at time t (windowElapsed in ticks)
getQuotaStatusAt(count, start, t) ==
    LET windowElapsed == IF start > 0 THEN t - start ELSE 0
        remaining == MAX_REQUESTS_PER_15_MINUTES - count
    IN  [used |-> count,
         remaining |-> remaining,
         total |-> MAX_REQUESTS_PER_15_MINUTES,
         windowElapsed |-> windowElapsed,
         canMakeMoreRequests |-> remaining > 0]

\* getQuotaStatus running the window check of lines 827-836 before it reads
getQuotaStatus_rollover ==
    /\ requestCount' = WindowAfterCheck.count
    /\ windowStartTime' = WindowAfterCheck.start
    /\ quotaStatus' = <<getQuotaStatusAt(requestCount', windowStartTime', now)>>
    /\ UNCHANGED <<now, flows, tpc, wakeAt, completions, upVars, retryVars, collVars>>
    /\ UNCHANGED storeVars

\* lines 856-868: a call of getQuotaStatus (it has no await)
getQuotaStatus ==
    /\ quotaStatus' = <<getQuotaStatusAt(requestCount, windowStartTime, now)>>
    /\ UNCHANGED <<now, flows, gateVars, upVars, retryVars, collVars>>
    /\ UNCHANGED storeVars

InitStatusVars ==
    quotaStatus = << >>

InitGateVars ==
    /\ requestCount = 0
    /\ windowStartTime = 0
    /\ tpc = [f \in Flows |-> "idle"]
    /\ wakeAt = [f \in Flows |-> 0]
    /\ completions = << >>

(***************************************************************************)
(* The upstream paginated API (client.v2.userTimeline).  It may answer any *)
(* request with any page or any error.  A page holds 0..tweetsPerPage new  *)
(* tweets; with media "own" its first tweet carries one media key and the  *)
(* page's includes.media holds the object of that key.                     *)
(***************************************************************************)
Tweets(first, k, md) ==
    [i \in 1..k |->
        [id |-> first + i - 1,
         media_keys |-> IF md = "own" /\ i = 1 THEN <<first>> ELSE << >>]]

Response(k, md, tok) ==
    [data |-> Tweets(served + 1, k, md),
     media |-> IF md = "own" THEN <<[media_key |-> served + 1]>> ELSE << >>,
     next_token |-> tok]

PageResponses ==
    {Response(k, md, tok) :
        k \in 0..tweetsPerPage, md \in {"none"}, tok \in {NoToken, issued + 1}}
    \cup
    {Response(k, md, tok) :
        k \in 1..tweetsPerPage, md \in {"own"}, tok \in {NoToken, issued + 1}}

NoResponse == [data |-> << >>, media |-> << >>, next_token |-> NoToken]

InitUpVars ==
    /\ served = 0
    /\ issued = 0

(***************************************************************************)
(* Retry Policy: retryWithIntelligentBackoff, lines 880-930.               *)
(***************************************************************************)
InitRetryVars ==
    /\ rpc = "idle"
    /\ maxRetries = defaultMaxRetries
    /\ attempt = 0
    /\ lastError = NoError
    /\ opToken = NoToken
    /\ rresult = NoResponse
    /\ rerror = NoError
    /\ opLog = << >>
    /\ sleeps = << >>

\* lines 885-887: entry, `let lastError`, the first test of the for loop;
\* line 929 when the loop body never runs
retryEnter(m, tok) ==
    /\ maxRetries' = m
    /\ attempt' = 1
    /\ lastError' = NoError
    /\ opToken' = tok
    /\ rresult' = NoResponse
    /\ rerror' = NoError
    /\ opLog' = << >>
    /\ sleeps' = << >>
    /\ rpc' = IF 1 <= m THEN "attempt" ELSE "raised"

\* lines 889-890: operation() resolves and its value is returned
retryAttemptOk(resp) ==
    /\ rpc = "attempt"
    /\ rresult' = resp
    /\ rpc' = "returned"
    /\ opLog' = Append(opLog, [token |-> opToken, code |-> 0])
    /\ served' = served + Len(resp.data)
    /\ issued' = IF resp.next_token # NoToken THEN issued + 1 ELSE issued
    /\ UNCHANGED <<maxRetries, attempt, lastError, opToken, rerror, sleeps>>
    /\ UNCHANGED <<now, flows, gateVars, collVars>>
    /\ UNCHANGED <<storeVars, statusVars>>

\* CatchDecision with the 404 branch of lines 908-911 missing
CatchDecision_retry404(c, a, m) ==
    IF c = 429
    THEN IF a < m THEN [act |-> "sleep", ms |-> rateLimitWait]
         ELSE IF a = m THEN [act |-> "throw", ms |-> 0] ELSE [act |-> "next", ms |-> 0]
    ELSE IF c = 401 \/ c = 403 THEN [act |-> "throw", ms |-> 0]
    ELSE IF a < m THEN [act |-> "sleep", ms |-> baseDelay * a]
         ELSE IF a = m THEN [act |-> "throw", ms |-> 0] ELSE [act |-> "next", ms |-> 0]

\* CatchDecision with the else branch of lines 912-920 throwing at once
CatchDecision_noRetry(c, a, m) ==
    IF c = 429
    THEN IF a < m THEN [act |-> "sleep", ms |-> rateLimitWait]
         ELSE IF a = m THEN [act |-> "throw", ms |-> 0] ELSE [act |-> "next", ms |-> 0]
    ELSE [act |-> "throw", ms |-> 0]

\* CatchDecision with the delay of line 914 not growing with the attempt
CatchDecision_flatDelay(c, a, m) ==
    IF c = 429
    THEN IF a < m THEN [act |-> "sleep", ms |-> rateLimitWait]
         ELSE IF a = m THEN [act |-> "throw", ms |-> 0] ELSE [act |-> "next", ms |-> 0]
    ELSE IF c = 401 \/ c = 403 THEN [act |-> "throw", ms |-> 0]
    ELSE IF c = 404 THEN [act |-> "throw", ms |-> 0]
    ELSE IF a < m THEN [act |-> "sleep", ms |-> baseDelay]
         ELSE IF a = m THEN [act |-> "throw", ms |-> 0] ELSE [act |-> "next", ms |-> 0]

\* lines 895-925: what the catch block does with an error of code c at
\* attempt a of m: sleep and continue, throw, or fall out of the block
CatchDecision(c, a, m) ==
    IF c = 429
    THEN IF a < m THEN [act |-> "sleep", ms |-> rateLimitWait]
         ELSE IF a = m THEN [act |-> "throw", ms |-> 0] ELSE [act |-> "next", ms |-> 0]
    ELSE IF c = 401 \/ c = 403 THEN [act |-> "throw", ms |-> 0]
    ELSE IF c = 404 THEN [act |-> "throw", ms |-> 0]
    ELSE IF a < m THEN [act |-> "sleep", ms |-> baseDelay * a]
         ELSE IF a = m THEN [act |-> "throw", ms |-> 0] ELSE [act |-> "next", ms |-> 0]

\* lines 891-925: operation() rejects with an error of code c
retryAttemptFail(c) ==
    /\ rpc = "attempt"
    /\ lastError' = [code |-> c]
    /\ opLog' = Append(opLog, [token |-> opToken, code |-> c])
    /\ LET d == CatchDecision(c, attempt, maxRetries)
       IN  CASE d.act = "sleep" ->
                  /\ sleeps' = Append(sleeps, [after |-> attempt, ms |-> d.ms])
                  /\ rpc' = "sleep"
                  /\ UNCHANGED <<attempt, rerror>>
             [] d.act = "throw" ->
                  /\ rerror' = [code |-> c]
                  /\ rpc' = "raised"
                  /\ UNCHANGED <<attempt, sleeps>>
             [] d.act = "next" ->
                  /\ attempt' = attempt + 1
                  /\ rpc' = "attempt"
                  /\ UNCHANGED <<rerror, sleeps>>
    /\ UNCHANGED <<maxRetries, opToken, rresult>>
    /\ UNCHANGED <<now, flows, gateVars, upVars, collVars>>
    /\ UNCHANGED <<storeVars, statusVars>>

\* retryWake passing the gate again before the next attempt
retryWake_throttled ==
    /\ rpc = "sleep"
    /\ attempt' = attempt + 1
    /\ IF attempt + 1 <= maxRetries
       THEN /\ rpc' = "attempt"
            /\ UNCHANGED rerror
       ELSE /\ rpc' = "raised"
            /\ rerror' = lastError
    /\ requestCount' = requestCount + 1
    /\ completions' = Append(completions,
                             [flow |-> "f1", at |-> now, window |-> windowStartTime])
    /\ UNCHANGED <<maxRetries, lastError, opToken, rresult, opLog, sleeps>>
    /\ UNCHANGED <<now, flows, windowStartTime, tpc, wakeAt, upVars, collVars>>
    /\ UNCHANGED <<storeVars, statusVars>>

\* lines 901-902 / 917-918, 887, 929: the sleep ends, `continue`, attempt++,
\* the loop test; past the loop `throw lastError`
retryWake ==
    /\ rpc = "sleep"
    /\ attempt' = attempt + 1
    /\ IF attempt + 1 <= maxRetries
       THEN /\ rpc' = "attempt"
            /\ UNCHANGED rerror
       ELSE /\ rpc' = "raised"
            /\ rerror' = lastError
    /\ UNCHANGED <<maxRetries, lastError, opToken, rresult, opLog, sleeps>>
    /\ UNCHANGED <<now, flows, gateVars, upVars, collVars>>
    /\ UNCHANGED <<storeVars, statusVars>>

\* a direct call retryWithIntelligentBackoff(operation, name, m)
Execute(m) ==
    /\ rpc = "idle"
    /\ cpc = "idle"
    /\ retryEnter(m, NoToken)
    /\ UNCHANGED <<now, flows, gateVars, upVars, collVars>>
    /\ UNCHANGED <<storeVars, statusVars>>

(***************************************************************************)
(* Result Assembler: lines 1150-1232 of maximizeUserTweetCollection.       *)
(* (created_at and the date range derived from it are left out: no         *)
(* decision of the collector reads them.)                                  *)
(***************************************************************************)
\* line 1182: allMediaIncludes.find(m => m.media_key === mediaKey), as an
\* index into pool (0 = undefined)
RECURSIVE FindMedia(_, _, _)
FindMedia(pool, key, i) ==
    IF i > Len(pool) THEN 0
    ELSE IF pool[i].media_key = key THEN i
    ELSE FindMedia(pool, key, i + 1)

\* ResolveKeys giving up on the whole list at the first key without a match
RECURSIVE ResolveKeys_allOrNothing(_, _)
ResolveKeys_allOrNothing(keys, pool) ==
    IF keys = << >> THEN << >>
    ELSE LET j == FindMedia(pool, Head(keys), 1)
             rest == ResolveKeys_allOrNothing(Tail(keys), pool)
         IN  IF j = 0 \/ Len(rest) < Len(Tail(keys)) THEN << >>
             ELSE <<[media_key |-> pool[j].media_key]>> \o rest

\* lines 1181-1192: media_keys.map(find ...).filter(Boolean)
RECURSIVE ResolveKeys(_, _)
ResolveKeys(keys, pool) ==
    IF keys = << >> THEN << >>
    ELSE LET j == FindMedia(pool, Head(keys), 1)
         IN  (IF j = 0 THEN << >> ELSE <<[media_key |-> pool[j].media_key]>>)
             \o ResolveKeys(Tail(keys), pool)

\* lines 1177-1202: one processed tweet
ProcessTweet(tweet, pool) ==
    LET mediaData == IF Len(pool) > 0 THEN ResolveKeys(tweet.media_keys, pool)
                     ELSE << >>
    IN  [id |-> tweet.id,
         media_keys |-> tweet.media_keys,
         media |-> mediaData,
         has_media |-> Len(mediaData) > 0]

\* Assemble returning no tweets after an error was recorded
Assemble_dropOnError(tweets, pool, errs, pages, hits, more) ==
    [tweets |-> IF errs = << >>
                THEN [i \in 1..Len(tweets) |-> ProcessTweet(tweets[i], pool)]
                ELSE << >>,
     metadata |-> [totalCollected |-> IF errs = << >> THEN Len(tweets) ELSE 0,
                   pagesProcessed |-> pages,
                   hasMoreData |-> more,
                   rateLimitHits |-> hits,
                   errors |-> errs]]

\* Assemble with the recorded errors left out of the summary
Assemble_noErrors(tweets, pool, errs, pages, hits, more) ==
    [tweets |-> [i \in 1..Len(tweets) |-> ProcessTweet(tweets[i], pool)],
     metadata |-> [totalCollected |-> Len(tweets),
                   pagesProcessed |-> pages,
                   hasMoreData |-> more,
                   rateLimitHits |-> hits,
                   errors |-> << >>]]

\* lines 1177-1231: the returned value
Assemble(tweets, pool, errs, pages, hits, more) ==
    [tweets |-> [i \in 1..Len(tweets) |-> ProcessTweet(tweets[i], pool)],
     metadata |-> [totalCollected |-> Len(tweets),
                   pagesProcessed |-> pages,
                   hasMoreData |-> more,
                   rateLimitHits |-> hits,
                   errors |-> errs]]

NoResult == Assemble(<< >>, << >>, << >>, 0, 0, FALSE)

(***************************************************************************)
(* Paginated Collector: maximizeUserTweetCollection, lines 967-1232, run   *)
(* by flow 1.  The outer catch of lines 1140-1148 has nothing to catch:    *)
(* every statement of the loop that can throw is inside the inner try.     *)
(***************************************************************************)
Collector == "f1"

InitCollVars ==
    /\ cpc = "idle"
    /\ allTweets = << >>
    /\ allMediaIncludes = << >>
    /\ errors = << >>
    /\ nextToken = NoToken
    /\ pagesProcessed = 0
    /\ rateLimitHits = 0
    /\ hasMoreData = FALSE
    /\ shouldStop = FALSE
    /\ consecutiveEmptyPages = 0
    /\ result = NoResult
    /\ fetches = << >>
    /\ arrived = << >>

\* line 1138: the while condition of the do-while loop
LoopCondition(tok, pages, stop) ==
    tok # NoToken /\ pages < maxPages /\ ~stop

\* the test of line 1070 with the comparison off by one
TargetReached_after(tweets) ==
    Len(tweets) > targetTweetCount

\* line 1070: allTweets.length >= targetTweetCount
TargetReached(tweets) ==
    Len(tweets) >= targetTweetCount

\* the test of line 1080 with the comparison off by one
EmptyLimitReached_after(count) ==
    count > maxEmptyPages

\* line 1080: consecutiveEmptyPages >= maxEmptyPages
EmptyLimitReached(count) ==
    count >= maxEmptyPages

\* what the loop condition (line 1138), the stop tests (lines 1070, 1080) and
\* the branches of the catch (lines 1112, 1128) read
LoopState(tok, pages, stop, tweets, empty) ==
    [nextToken |-> tok, pagesProcessed |-> pages, shouldStop |-> stop,
     tweets |-> Len(tweets), consecutiveEmptyPages |-> empty]

\* lines 1004-1058: the head of an iteration, up to `await throttleRequest()`
BeginIteration(log) ==
    /\ Len(log) < MaxFetches
    /\ fetches' = Append(log, [token |-> nextToken', out |-> "pending", n |-> 0,
                               next |-> NoToken,
                               loop |-> LoopState(nextToken', pagesProcessed',
                                                  shouldStop', allTweets',
                                                  consecutiveEmptyPages')])
    /\ tpc' = [tpc EXCEPT ![Collector] = "call"]
    /\ cpc' = "throttle"
    /\ result' = result

\* lines 1150-1232: the loop is left and the result is assembled and returned
Finish(log) ==
    /\ fetches' = log
    /\ tpc' = tpc
    /\ cpc' = "done"
    /\ result' = Assemble(allTweets', allMediaIncludes', errors', pagesProcessed',
                          rateLimitHits', hasMoreData')

\* the fetch log with the outcome of the running iteration filled in
Logged(out, n) ==
    [fetches EXCEPT ![Len(fetches)] = [@ EXCEPT !.out = out, !.n = n]]

\* lines 981-1058: the call, the locals, the head of the first iteration
maximizeUserTweetCollection ==
    /\ cpc = "idle"
    /\ rpc = "idle"
    /\ Collector \in flows
    /\ tpc[Collector] = "idle"
    /\ allTweets' = << >>
    /\ allMediaIncludes' = << >>
    /\ errors' = << >>
    /\ nextToken' = NoToken
    /\ pagesProcessed' = 0
    /\ rateLimitHits' = 0
    /\ hasMoreData' = FALSE
    /\ shouldStop' = FALSE
    /\ consecutiveEmptyPages' = 0
    /\ arrived' = << >>
    /\ BeginIteration(<< >>)
    /\ UNCHANGED <<now, flows, requestCount, windowStartTime, wakeAt, completions>>
    /\ UNCHANGED <<upVars, retryVars>>
    /\ UNCHANGED <<storeVars, statusVars>>

\* lines 1058-1062: throttleRequest has returned; the page fetch is handed
\* to retryWithIntelligentBackoff with the default maxRetries
collectFetch ==
    /\ cpc = "throttle"
    /\ tpc[Collector] = "ret"
    /\ tpc' = [tpc EXCEPT ![Collector] = "idle"]
    /\ retryEnter(defaultMaxRetries, nextToken)
    /\ cpc' = "fetch"
    /\ UNCHANGED <<allTweets, allMediaIncludes, errors, nextToken, pagesProcessed,
                   rateLimitHits, hasMoreData, shouldStop, consecutiveEmptyPages,
                   result, fetches, arrived>>
    /\ UNCHANGED <<now, flows, requestCount, windowStartTime, wakeAt, completions>>
    /\ UNCHANGED upVars
    /\ UNCHANGED <<storeVars, statusVars>>

\* lines 1064-1102 and 1138: retryWithIntelligentBackoff returned a page
collectPage ==
    /\ cpc = "fetch"
    /\ rpc = "returned"
    /\ rpc' = "idle"
    /\ LET response == rresult
           n == Len(response.data)
           log == [Logged("page", n) EXCEPT ![Len(fetches)].next = response.next_token]
       IN  /\ arrived' = arrived \o response.data
           /\ IF n > 0
              THEN /\ allTweets' = allTweets \o response.data
                   /\ consecutiveEmptyPages' = 0
              ELSE /\ allTweets' = allTweets
                   /\ consecutiveEmptyPages' = consecutiveEmptyPages + 1
           /\ errors' = errors
           /\ rateLimitHits' = rateLimitHits
           /\ IF \/ n > 0 /\ TargetReached(allTweets')
                 \/ n = 0 /\ EmptyLimitReached(consecutiveEmptyPages')
              THEN \* lines 1072-1073 / 1082-1083: shouldStop = true; break
                   /\ shouldStop' = TRUE
                   /\ UNCHANGED <<allMediaIncludes, nextToken, hasMoreData, pagesProcessed>>
                   /\ Finish(log)
              ELSE \* lines 1088-1095, then the loop condition
                   /\ allMediaIncludes' = allMediaIncludes \o response.media
                   /\ nextToken' = response.next_token
                   /\ hasMoreData' = (response.next_token # NoToken)
                   /\ pagesProcessed' = pagesProcessed + 1
                   /\ shouldStop' = shouldStop
                   /\ IF LoopCondition(nextToken', pagesProcessed', shouldStop')
                      THEN BeginIteration(log)
                      ELSE Finish(log)
    /\ UNCHANGED <<maxRetries, attempt, lastError, opToken, rresult, rerror, opLog, sleeps>>
    /\ UNCHANGED <<now, flows, requestCount, windowStartTime, wakeAt, completions>>
    /\ UNCHANGED upVars
    /\ UNCHANGED <<storeVars, statusVars>>

\* lines 1106-1136: retryWithIntelligentBackoff threw
collectCatch ==
    /\ cpc = "fetch"
    /\ rpc = "raised"
    /\ rpc' = "idle"
    /\ LET error == rerror
           log == Logged("error", error.code)
       IN  /\ UNCHANGED <<allTweets, allMediaIncludes, nextToken, pagesProcessed,
                          hasMoreData, consecutiveEmptyPages, arrived>>
           /\ IF error.code = 429
              THEN /\ rateLimitHits' = rateLimitHits + 1
                   /\ errors' = Append(errors, [kind |-> "rate_limit",
                                                page |-> pagesProcessed + 1,
                                                code |-> error.code])
                   /\ IF Len(allTweets) > 0
                      THEN /\ shouldStop' = TRUE
                           /\ Finish(log)
                      ELSE \* line 1121: await this.sleep(5000)
                           /\ shouldStop' = shouldStop
                           /\ cpc' = "cooldown"
                           /\ fetches' = log
                           /\ UNCHANGED <<tpc, result>>
              ELSE /\ rateLimitHits' = rateLimitHits
                   /\ errors' = Append(errors, [kind |-> "page",
                                                page |-> pagesProcessed + 1,
                                                code |-> error.code])
                   /\ shouldStop' = (Len(allTweets) > 0 \/ shouldStop)
                   /\ Finish(log)
    /\ UNCHANGED <<maxRetries, attempt, lastError, opToken, rresult, rerror, opLog, sleeps>>
    /\ UNCHANGED <<now, flows, requestCount, windowStartTime, wakeAt, completions>>
    /\ UNCHANGED upVars
    /\ UNCHANGED <<storeVars, statusVars>>

\* lines 1121-1122 and 1138: the cooldown ends, `continue` jumps to the
\* loop condition
collectContinue ==
    /\ cpc = "cooldown"
    /\ UNCHANGED <<allTweets, allMediaIncludes, errors, nextToken, pagesProcessed,
                   rateLimitHits, hasMoreData, shouldStop, consecutiveEmptyPages,
                   arrived>>
    /\ IF LoopCondition(nextToken, pagesProcessed, shouldStop)
       THEN BeginIteration(fetches)
       ELSE Finish(fetches)
    /\ UNCHANGED <<now, flows, requestCount, windowStartTime, wakeAt, completions>>
    /\ UNCHANGED <<upVars, retryVars>>
    /\ UNCHANGED <<storeVars, statusVars>>

(***************************************************************************)
(* Cache Store: MaximizedTwitterCache, lines 113-418.                      *)
(*                                                                         *)
(* A string is a sequence of characters.  An item of sessionStorage is     *)
(* << >> (getItem gives null) or <<value>>.  A JavaScript object used as a *)
(* map (accounts) is the sequence of its [key, data] entries in insertion  *)
(* order, the order of Object.entries.  The JSON text of the payload is    *)
(* kept as the value it denotes; its length is SerializedSize.             *)
(***************************************************************************)
LowerChar(c) ==
    CASE c = "A" -> "a"
      [] c = "B" -> "b"
      [] c = "C" -> "c"
      [] OTHER -> c

\* the key used as it is given
toLowerCase_asGiven(str) == str

\* String.prototype.toLowerCase (lines 178, 280)
toLowerCase(str) == [i \in 1..Len(str) |-> LowerChar(str[i])]

\* Number.prototype.toString (line 200): the decimal digits of n >= 0
RECURSIVE toString(_)
toString(n) ==
    IF n < 10 THEN <<n>> ELSE Append(toString(n \div 10), n % 10)

\* parseInt (line 291) of a string of decimal digits
RECURSIVE parseInt(_)
parseInt(digits) ==
    IF Len(digits) = 1 THEN digits[1]
    ELSE 10 * parseInt(SubSeq(digits, 1, Len(digits) - 1)) + digits[Len(digits)]

\* lines 126-139
compressData(data) ==
    [a |-> data.accounts,
     g |-> [l  |-> data.globalMetadata.lastUpdated,
            v  |-> data.globalMetadata.version,
            ta |-> data.globalMetadata.totalAccounts,
            tt |-> data.globalMetadata.totalTweets,
            s  |-> data.globalMetadata.cachingStrategy]]

\* the value `undefined` where a map of accounts is expected
undefined == <<[undefined |-> TRUE]>>

\* line 145: JSON.parse accepts the text.  A stored text is kept as the
\* value it denotes: an object with some of the members a and g, or, for a
\* text that is no JSON, the record [unparseable |-> TRUE].
Parseable(text) == "unparseable" \notin DOMAIN text

\* lines 145-155 throw: JSON.parse rejects the text (SyntaxError), or
\* compressed.g is undefined and compressed.g.l is read (TypeError)
DecompressThrows(text) == ~Parseable(text) \/ "g" \notin DOMAIN text

\* lines 144-156
decompressData(compressed) ==
    [accounts |-> IF "a" \in DOMAIN compressed THEN compressed.a ELSE undefined,
     globalMetadata |-> [lastUpdated     |-> compressed.g.l,
                         version         |-> compressed.g.v,
                         totalAccounts   |-> compressed.g.ta,
                         totalTweets     |-> compressed.g.tt,
                         cachingStrategy |-> compressed.g.s]]

\* line 188: new Blob([compressedData]).size.  The JSON text is the fixed
\* frame and metadata block (1 unit here) followed by, for every account,
\* its key and frame (1 unit) and its tweets (1 unit each).
RECURSIVE SumTweets(_)
SumTweets(accounts) ==
    IF accounts = << >> THEN 0
    ELSE Len(Head(accounts).data.tweets) + SumTweets(Tail(accounts))

EntrySize(entry) == 1 + Len(entry.data.tweets)

SerializedSize(compressed) == 1 + Len(compressed.a) + SumTweets(compressed.a)

\* index of key in an accounts map, 0 when absent
RECURSIVE IndexOf(_, _, _)
IndexOf(accounts, key, i) ==
    IF i > Len(accounts) THEN 0
    ELSE IF accounts[i].key = key THEN i
    ELSE IndexOf(accounts, key, i + 1)

\* the assignment replacing the whole map by the one entry
SetProperty_fresh(accounts, key, data) ==
    <<[key |-> key, data |-> data]>>

\* line 178: accounts[key] = data
SetProperty(accounts, key, data) ==
    LET i == IndexOf(accounts, key, 1)
    IN  IF i = 0 THEN Append(accounts, [key |-> key, data |-> data])
        ELSE [accounts EXCEPT ![i] = [key |-> key, data |-> data]]

\* lines 264-271 and 252-259, times the common denominator oneDay * 730000
\* so that the score is an integer: recency = max(0, 1 - age / oneDay),
\* tweets / 1000, timeSpanDays / 365, totalEngagement / 10000
calculateAccountCacheScore(accountData, t) ==
    LET age == t - accountData.collectionMetadata.collectionTime
        recency == IF oneDay - age > 0 THEN oneDay - age ELSE 0
    IN  730000 * recency
        + oneDay * (730 * Len(accountData.tweets)
                    + 2000 * accountData.collectionMetadata.timeSpanDays
                    + 73 * accountData.stats.engagement.totalEngagement)

\* lines 224-228: Array.prototype.sort with (a, b) => scoreB - scoreA, a
\* stable sort by descending score
RECURSIVE SortByScore(_, _)
SortByScore(entries, t) ==
    IF entries = << >> THEN << >>
    ELSE LET n == Len(entries)
             x == entries[n]
             sorted == SortByScore(SubSeq(entries, 1, n - 1), t)
             p == Cardinality({i \in DOMAIN sorted :
                     calculateAccountCacheScore(sorted[i].data, t)
                       >= calculateAccountCacheScore(x.data, t)})
         IN  SubSeq(sorted, 1, p) \o <<x>> \o SubSeq(sorted, p + 1, Len(sorted))

\* keepCount rounded down instead of up
KeepCount_floor(n) == (7 * n) \div 10

\* line 231: Math.ceil(accounts.length * 0.7)
KeepCount(n) == (7 * n + 9) \div 10

\* performIntelligentCleanup leaving the counters of the metadata as they were
performIntelligentCleanup_staleCounters(cacheData, t) ==
    LET accounts == SortByScore(cacheData.accounts, t)
        keepCount == KeepCount(Len(accounts))
        keptAccounts == SubSeq(accounts, 1, keepCount)
    IN  [accounts |-> keptAccounts,
         globalMetadata |-> [cacheData.globalMetadata EXCEPT !.lastUpdated = t]]

\* lines 218-247
performIntelligentCleanup(cacheData, t) ==
    LET accounts == SortByScore(cacheData.accounts, t)
        keepCount == KeepCount(Len(accounts))
        keptAccounts == SubSeq(accounts, 1, keepCount)
    IN  [accounts |-> keptAccounts,
         globalMetadata |->
            [cacheData.globalMetadata EXCEPT
                !.lastUpdated = t,
                !.totalAccounts = Len(keptAccounts),
                !.totalTweets = SumTweets(keptAccounts)]]

NoItem == << >>

ClearedStorage == [cache |-> NoItem, expiry |-> NoItem]

\* line 291, second disjunct: the stored expiry has passed at time t
Expired(storage, t) ==
    storage.expiry # NoItem /\ t > parseInt(storage.expiry[1])

\* the expiry test with the instant of expiry counted as expired
getAllDataAt_inclusive(storage, t) ==
    IF storage.expiry = NoItem \/ t >= parseInt(storage.expiry[1])
    THEN [data |-> << >>, storage |-> ClearedStorage]
    ELSE IF storage.cache = NoItem
    THEN [data |-> << >>, storage |-> storage]
    ELSE IF DecompressThrows(storage.cache[1])
    THEN \* lines 304-307: catch, clear(), return null
         [data |-> << >>, storage |-> ClearedStorage]
    ELSE [data |-> <<decompressData(storage.cache[1])>>, storage |-> storage]

\* lines 286-309: the value getAllData returns (<< >> for null) and the
\* storage it leaves, read at time t
getAllDataAt(storage, t) ==
    IF storage.expiry = NoItem \/ Expired(storage, t)
    THEN [data |-> << >>, storage |-> ClearedStorage]
    ELSE IF storage.cache = NoItem
    THEN [data |-> << >>, storage |-> storage]
    ELSE IF DecompressThrows(storage.cache[1])
    THEN \* lines 304-307: catch, clear(), return null
         [data |-> << >>, storage |-> ClearedStorage]
    ELSE [data |-> <<decompressData(storage.cache[1])>>, storage |-> storage]

\* lines 166-175: the store a put starts from when getAllData gives null
EmptyCacheData(t) ==
    [accounts |-> << >>,
     globalMetadata |-> [lastUpdated |-> t,
                         version |-> "v2_maximum_collection",
                         totalAccounts |-> 0,
                         totalTweets |-> 0,
                         cachingStrategy |-> "maximum_unlimited_historical"]]

\* lines 166-196: the store setAccountData is about to write
CacheDataToWrite(storage, username, accountData, t) ==
    LET got == getAllDataAt(storage, t)
        cacheData == IF got.data = << >> THEN EmptyCacheData(t) ELSE got.data[1]
        accounts == SetProperty(cacheData.accounts, toLowerCase(username), accountData)
        updated == [accounts |-> accounts,
                    globalMetadata |->
                       [cacheData.globalMetadata EXCEPT
                           !.lastUpdated = t,
                           !.totalAccounts = Len(accounts),
                           !.totalTweets = SumTweets(accounts)]]
        dataSize == SerializedSize(compressData(updated))
    IN  IF dataSize > MAX_STORAGE_SIZE
        THEN performIntelligentCleanup(updated, t)
        ELSE updated

\* lines 186-190: the size test of setAccountData, whether the cleanup runs
CleanupTriggered(storage, username, accountData, t) ==
    LET got == getAllDataAt(storage, t)
        cacheData == IF got.data = << >> THEN EmptyCacheData(t) ELSE got.data[1]
        accounts == SetProperty(cacheData.accounts, toLowerCase(username), accountData)
    IN  1 + Len(accounts) + SumTweets(accounts) > MAX_STORAGE_SIZE

\* a TypeError thrown to the caller, in place of a returned value
TypeError == [thrown |-> "TypeError"]

\* line 178 throws: cacheData.accounts is undefined (TypeError, caught at
\* line 208)
PutThrows(storage, t) ==
    LET got == getAllDataAt(storage, t)
    IN  got.data # << >> /\ got.data[1].accounts = undefined

\* lines 276-281: the value getAccountData returns (<< >> for null, TypeError
\* when it throws) and the storage it leaves, read at time t
getAccountDataAt(storage, username, t) ==
    LET got == getAllDataAt(storage, t)
    IN  IF got.data = << >>
        THEN [data |-> << >>, storage |-> got.storage]
        ELSE IF got.data[1].accounts = undefined
        THEN \* line 280: allData.accounts[...] with accounts undefined
             [data |-> <<TypeError>>, storage |-> got.storage]
        ELSE LET accounts == got.data[1].accounts
                 i == IndexOf(accounts, toLowerCase(username), 1)
             IN  [data |-> IF i = 0 THEN << >> ELSE <<accounts[i].data>>,
                  storage |-> got.storage]

\* the account data a caller passes to setAccountData at time t: n tweets,
\* collected now (src/app/analytics/time-analysis-v2/page.tsx:797-806)
AccountData(n, span, t) ==
    [tweets |-> [i \in 1..n |-> i],
     stats |-> [engagement |-> [totalEngagement |-> n],
                content |-> [avgLength |-> n]],
     collectionMetadata |-> [totalCollected |-> n,
                             timeSpanDays |-> span,
                             collectionTime |-> t]]

Usernames == {<<"a">>, <<"A">>, <<"b">>, <<" ", "a">>}

\* the numbers of tweets of the accounts that are cached
TweetCounts == {1, 2}

InitCacheVars ==
    /\ sessionStorage = ClearedStorage
    /\ ret = << >>
    /\ op = [name |-> "none", key |-> << >>, expired |-> FALSE, stale |-> FALSE,
             data |-> << >>, committed |-> FALSE, evicted |-> FALSE]
    /\ nops = 0

\* setAccountData keeping the expiry of a store that has not expired
setAccountData_keepExpiry(username, accountData, quota) ==
    /\ nops < MaxOps
    /\ nops' = nops + 1
    /\ op' = [name |-> "setAccountData", key |-> username,
              expired |-> Expired(sessionStorage, now), stale |-> FALSE,
              data |-> <<accountData>>,
              committed |-> ~quota /\ ~PutThrows(sessionStorage, now),
              evicted |-> /\ ~PutThrows(sessionStorage, now)
                          /\ CleanupTriggered(sessionStorage, username, accountData, now)]
    /\ ret' = << >>
    /\ LET cacheData == CacheDataToWrite(sessionStorage, username, accountData, now)
           finalCompressed == compressData(cacheData)
           expiry == now + CACHE_DURATION
       IN  sessionStorage' = IF quota \/ PutThrows(sessionStorage, now)
                             THEN ClearedStorage
                             ELSE [cache |-> <<finalCompressed>>,
                                   expiry |-> IF getAllDataAt(sessionStorage, now).data = << >>
                                              THEN <<toString(expiry)>>
                                              ELSE sessionStorage.expiry]
    /\ UNCHANGED <<now, flows, serviceVars, evictVars>>

\* lines 161-213; quota: sessionStorage.setItem throws (the quota of the
\* storage is exceeded), which the catch block answers with clear()
setAccountData(username, accountData, quota) ==
    /\ nops < MaxOps
    /\ nops' = nops + 1
    /\ op' = [name |-> "setAccountData", key |-> username,
              expired |-> Expired(sessionStorage, now), stale |-> FALSE,
              data |-> <<accountData>>,
              committed |-> ~quota /\ ~PutThrows(sessionStorage, now),
              evicted |-> /\ ~PutThrows(sessionStorage, now)
                          /\ CleanupTriggered(sessionStorage, username, accountData, now)]
    /\ ret' = << >>
    /\ LET cacheData == CacheDataToWrite(sessionStorage, username, accountData, now)
           finalCompressed == compressData(cacheData)
           expiry == now + CACHE_DURATION
       IN  sessionStorage' = IF quota \/ PutThrows(sessionStorage, now)
                             THEN ClearedStorage
                             ELSE [cache |-> <<finalCompressed>>,
                                   expiry |-> <<toString(expiry)>>]
    /\ UNCHANGED <<now, flows, serviceVars, evictVars>>

\* lines 286-309
getAllData ==
    /\ nops < MaxOps
    /\ nops' = nops + 1
    /\ op' = [name |-> "getAllData", key |-> << >>,
              expired |-> Expired(sessionStorage, now),
              stale |-> op.stale \/ Expired(sessionStorage, now),
              data |-> << >>, committed |-> FALSE, evicted |-> FALSE]
    /\ LET got == getAllDataAt(sessionStorage, now)
       IN  /\ ret' = got.data
           /\ sessionStorage' = got.storage
    /\ UNCHANGED <<now, flows, serviceVars, evictVars>>

\* lines 276-281
getAccountData(username) ==
    /\ nops < MaxOps
    /\ nops' = nops + 1
    /\ op' = [name |-> "getAccountData", key |-> username,
              expired |-> Expired(sessionStorage, now),
              stale |-> op.stale \/ Expired(sessionStorage, now),
              data |-> << >>, committed |-> FALSE, evicted |-> FALSE]
    /\ LET got == getAccountDataAt(sessionStorage, username, now)
       IN  /\ sessionStorage' = got.storage
           /\ ret' = got.data
    /\ UNCHANGED <<now, flows, serviceVars, evictVars>>

\* lines 393-403
clear ==
    /\ nops < MaxOps
    /\ nops' = nops + 1
    /\ op' = [name |-> "clear", key |-> << >>, expired |-> FALSE, stale |-> op.stale,
              data |-> << >>, committed |-> FALSE, evicted |-> FALSE]
    /\ ret' = << >>
    /\ sessionStorage' = ClearedStorage
    /\ UNCHANGED <<now, flows, serviceVars, evictVars>>

InitEvictVars ==
    /\ evIn = EmptyCacheData(0)
    /\ evOut = << >>

InitServiceVars ==
    /\ InitGateVars
    /\ InitStatusVars
    /\ InitUpVars
    /\ InitRetryVars
    /\ InitCollVars

(***************************************************************************)
(* SpecCache: the cache operations called in any order at any time.        *)
(***************************************************************************)
\* Date.now() between the calls of the cache: time passes
Elapse ==
    /\ now < SessionStart + MaxElapse
    /\ now' = now + 1
    /\ UNCHANGED <<flows, serviceVars, cacheVars, evictVars>>

InitCache ==
    /\ now = SessionStart
    /\ flows = {}
    /\ InitServiceVars
    /\ InitCacheVars
    /\ InitEvictVars

NextCache ==
    \/ Elapse
    \/ \E u \in Usernames, n \in TweetCounts, quota \in BOOLEAN :
          setAccountData(u, AccountData(n, 0, now), quota)
    \/ getAllData
    \/ \E u \in Usernames : getAccountData(u)
    \/ clear

SpecCache == InitCache /\ [][NextCache]_vars

(***************************************************************************)
(* SpecEvict: performIntelligentCleanup applied to stores of 1 to          *)
(* MaxAccounts accounts whose scores take three values in any order.       *)
(***************************************************************************)
\* the key of the i-th account: "a", "aa", "aaa", ...
KeyOf(i) == [j \in 1..i |-> "a"]

\* account data of three different scores at time t
ScoredAccounts(t) ==
    {AccountData(1, 0, t), AccountData(2, 1, t - 1), AccountData(1, 0, t - 1)}

CacheDataOf(datas, t) ==
    LET accounts == [i \in 1..Len(datas) |-> [key |-> KeyOf(i), data |-> datas[i]]]
    IN  [accounts |-> accounts,
         globalMetadata |-> [EmptyCacheData(t).globalMetadata EXCEPT
                                !.totalAccounts = Len(accounts),
                                !.totalTweets = SumTweets(accounts)]]

\* Init draws the argument: a store of 1..MaxAccounts accounts
InitEvict ==
    /\ now = MaxTime
    /\ flows = {}
    /\ InitServiceVars
    /\ InitCacheVars
    /\ \E n \in 1..MaxAccounts :
          \E datas \in [1..n -> ScoredAccounts(now)] :
             evIn = CacheDataOf(datas, now)
    /\ evOut = << >>

\* a call performIntelligentCleanup(evIn) at time now
Cleanup ==
    /\ evOut = << >>
    /\ evOut' = <<performIntelligentCleanup(evIn, now)>>
    /\ UNCHANGED <<now, flows, serviceVars, cacheVars, evIn>>

NextEvict == Cleanup

SpecEvict == InitEvict /\ [][NextEvict]_vars

(***************************************************************************)
(* SpecCorrupt: the cache operations called on a session storage that      *)
(* holds, under the cache's key, a text the cache did not write: any of    *)
(* the texts of Payloads, with an expiry that has not passed.              *)
(***************************************************************************)
\* the payloads setAccountData writes for one account
WrittenPayloads ==
    {compressData(CacheDataOf(datas, SessionStart)) :
        datas \in [1..1 -> ScoredAccounts(SessionStart)]}

\* stored texts: as written; an object lacking the member a, the member g,
\* or both; a text that is no JSON
Payloads ==
    WrittenPayloads
    \cup {[g |-> w.g] : w \in WrittenPayloads}
    \cup {[a |-> w.a] : w \in WrittenPayloads}
    \cup {[other |-> 1], [unparseable |-> TRUE]}

InitCorrupt ==
    /\ now = SessionStart
    /\ flows = {}
    /\ InitServiceVars
    /\ InitEvictVars
    /\ ret = << >>
    /\ op = [name |-> "none", key |-> << >>, expired |-> FALSE, stale |-> FALSE,
             data |-> << >>, committed |-> FALSE, evicted |-> FALSE]
    /\ nops = 0
    /\ \E text \in Payloads :
          sessionStorage = [cache |-> <<text>>,
                            expiry |-> <<toString(SessionStart + CACHE_DURATION)>>]

SpecCorrupt == InitCorrupt /\ [][NextCache]_vars

(***************************************************************************)
(* SpecFull: the cache operations called in a session whose store already  *)
(* holds one account, written by an earlier setAccountData at the start of *)
(* the session.                                                            *)
(***************************************************************************)
\* the key of the account cached first
FirstKey == <<"c">>

\* its number of tweets: the largest of TweetCounts
FirstCount == CHOOSE n \in TweetCounts : \A m \in TweetCounts : m <= n

\* the session storage after setAccountData(FirstKey, data) on an empty store
StoredFirst ==
    [cache |-> <<compressData(CacheDataToWrite(ClearedStorage, FirstKey,
                                               AccountData(FirstCount, 0, SessionStart),
                                               SessionStart))>>,
     expiry |-> <<toString(SessionStart + CACHE_DURATION)>>]

InitFull ==
    /\ now = SessionStart
    /\ flows = {}
    /\ InitServiceVars
    /\ InitEvictVars
    /\ ret = << >>
    /\ op = [name |-> "none", key |-> << >>, expired |-> FALSE, stale |-> FALSE,
             data |-> << >>, committed |-> FALSE, evicted |-> FALSE]
    /\ nops = 0
    /\ sessionStorage = StoredFirst

SpecFull == InitFull /\ [][NextCache]_vars

(***************************************************************************)
(* Properties of the cache store (SpecCache) and of eviction (SpecEvict).  *)
(***************************************************************************)
\* the entries of an accounts map, as a set
Entries(accounts) == {accounts[i] : i \in DOMAIN accounts}

Keys(accounts) == {accounts[i].key : i \in DOMAIN accounts}

\* C8 (as stated): the payload committed by a put is within the budget
\* whenever no single entry of it exceeds the budget.
C8_SizeBound ==
    (/\ sessionStorage.cache # NoItem
     /\ \A e \in Entries(sessionStorage.cache[1].a) : 1 + EntrySize(e) <= MAX_STORAGE_SIZE)
    => SerializedSize(sessionStorage.cache[1]) <= MAX_STORAGE_SIZE

\* C9: performIntelligentCleanup keeps exactly ceil(0.7 * n) of n entries,
\* every kept entry is an entry of the input, unchanged and kept once, and
\* no discarded entry has a higher score than a kept one (so 3 entries are
\* all kept and of 10 entries the 7 highest-scoring survive).
C9_EvictionOrdering ==
    evOut # << >>
    => LET in == evIn.accounts
           out == evOut[1].accounts
           n == Len(in)
           discarded == {e \in Entries(in) : e.key \notin Keys(out)}
       IN  /\ 10 * Len(out) >= 7 * n
           /\ 10 * (Len(out) - 1) < 7 * n
           /\ n = 3 => Len(out) = 3
           /\ n = 10 => Len(out) = 7
           /\ Entries(out) \subseteq Entries(in)
           /\ Cardinality(Keys(out)) = Len(out)
           /\ Cardinality(discarded) = n - Len(out)
           /\ \A k \in Entries(out), d \in discarded :
                 calculateAccountCacheScore(k.data, now)
                    >= calculateAccountCacheScore(d.data, now)

\* C9 witness: of 10 entries 7 are kept, and a discarded entry stood before
\* a kept entry of higher score in the input
C9_Witness ==
    /\ evOut # << >>
    /\ Len(evIn.accounts) = 10
    /\ Len(evOut[1].accounts) = 7
    /\ \E i, j \in DOMAIN evIn.accounts :
          /\ i < j
          /\ evIn.accounts[i].key \notin Keys(evOut[1].accounts)
          /\ evIn.accounts[j].key \in Keys(evOut[1].accounts)
          /\ calculateAccountCacheScore(evIn.accounts[j].data, now)
                > calculateAccountCacheScore(evIn.accounts[i].data, now)

\* a step that is a call of getAccountData or getAllData
ReadStep ==
    /\ nops' = nops + 1
    /\ op'.name \in {"getAccountData", "getAllData"}

\* a step that is a call of setAccountData
PutStep ==
    /\ nops' = nops + 1
    /\ op'.name = "setAccountData"

\* C10: a read (getAccountData of any key, or getAllData) issued when
\* now > expiry returns not-found and leaves storage with neither payload nor
\* expiry; from then until the next setAccountData storage stays cleared and
\* every read, at any time and for any key, returns not-found; a read issued
\* when now <= expiry leaves storage as it was.
C10_CacheExpiry ==
    [][/\ (ReadStep /\ Expired(sessionStorage, now))
          => (ret' = << >> /\ sessionStorage' = ClearedStorage)
       /\ (op.stale /\ ~PutStep)
          => (/\ sessionStorage = ClearedStorage
              /\ sessionStorage' = ClearedStorage
              /\ op'.stale
              /\ ReadStep => ret' = << >>)
       /\ (/\ ReadStep
           /\ sessionStorage.expiry # NoItem
           /\ now <= parseInt(sessionStorage.expiry[1]))
          => sessionStorage' = sessionStorage
      ]_vars

\* C10 witness: a getAccountData after an earlier read that found a
\* two-digit expiry passed, with no setAccountData in between: it returned
\* not-found and the store is cleared
C10_Witness ==
    /\ op.name = "getAccountData"
    /\ op.stale
    /\ ~op.expired
    /\ now > SessionStart + CACHE_DURATION
    /\ SessionStart + CACHE_DURATION >= 10
    /\ ret = << >>
    /\ sessionStorage = ClearedStorage

\* a step that is a setAccountData whose setItem calls did not throw and
\* whose size test did not run the cleanup
PlainPutStep ==
    /\ PutStep
    /\ op'.committed
    /\ ~op'.evicted

\* C11: a setAccountData(key, data) that commits under the size budget,
\* followed by getAccountData(key) before the expiry, returns data (the same
\* tweets.length, collectionMetadata.totalCollected and
\* stats.content.avgLength); and what getAccountData returns for the other
\* keys is the same after that setAccountData as before it.
C11_RoundTrip ==
    [][/\ (/\ op.name = "setAccountData"
           /\ op.committed
           /\ ~op.evicted
           /\ nops' = nops + 1
           /\ op'.name = "getAccountData"
           /\ op'.key = op.key
           /\ ~Expired(sessionStorage, now))
          => /\ ret' = op.data
             /\ Len(ret'[1].tweets) = Len(op.data[1].tweets)
             /\ ret'[1].collectionMetadata.totalCollected
                   = op.data[1].collectionMetadata.totalCollected
             /\ ret'[1].stats.content.avgLength = op.data[1].stats.content.avgLength
       /\ PlainPutStep
          => \A u \in Usernames :
                toLowerCase(u) # toLowerCase(op'.key)
                => getAccountDataAt(sessionStorage', u, now).data
                     = getAccountDataAt(sessionStorage, u, now).data
      ]_vars

\* C11 witness: setAccountData, setAccountData of another key, then
\* getAccountData of the first key, which returned the data stored first
C11_Witness ==
    /\ nops = 3
    /\ op.name = "getAccountData"
    /\ sessionStorage.cache # NoItem
    /\ Len(sessionStorage.cache[1].a) = 2
    /\ sessionStorage.cache[1].a[1].key = toLowerCase(op.key)
    /\ ret = <<sessionStorage.cache[1].a[1].data>>
    /\ Len(ret[1].tweets) # Len(sessionStorage.cache[1].a[2].data.tweets)

\* String.prototype.trim: the string without its leading and trailing blanks
RECURSIVE trim(_)
trim(str) ==
    IF str = << >> THEN str
    ELSE IF Head(str) = " " THEN trim(Tail(str))
    ELSE IF str[Len(str)] = " " THEN trim(SubSeq(str, 1, Len(str) - 1))
    ELSE str

\* lower(k) of the statement: k with every letter in lower case
lower(str) == [i \in DOMAIN str |-> LowerChar(str[i])]

\* the entries of the stored map whose key normalizes to the same as k, under
\* the normalization with or without trimming
StoredUnder(storage, k, trimmed) ==
    IF storage.cache = NoItem THEN {}
    ELSE {i \in DOMAIN storage.cache[1].a :
             IF trimmed
             THEN lower(trim(storage.cache[1].a[i].key)) = lower(trim(k))
             ELSE lower(storage.cache[1].a[i].key) = lower(k)}

\* a getAccountData(k2) step that follows a committed, cleanup-free
\* setAccountData(k1, data) before the expiry
GetAfterPut ==
    /\ op.name = "setAccountData"
    /\ op.committed
    /\ ~op.evicted
    /\ nops' = nops + 1
    /\ op'.name = "getAccountData"
    /\ ~Expired(sessionStorage, now)

\* C13 (as stated): keys are normalized by trimming and lowercasing: for k1,
\* k2 with lower(trim(k1)) = lower(trim(k2)), put(k1, r) then get(k2)
\* returns r, and after put(k2, r') exactly one entry, r', is stored for
\* that account.
C13_TrimLowerKeys ==
    [][/\ (GetAfterPut /\ lower(trim(op'.key)) = lower(trim(op.key)))
          => ret' = op.data
       /\ PlainPutStep
          => LET under == StoredUnder(sessionStorage', op'.key, TRUE)
             IN  /\ Cardinality(under) = 1
                 /\ \A i \in under : <<sessionStorage'.cache[1].a[i].data>> = op'.data
      ]_vars

\* C13 (amended): keys are normalized by lowercasing only: for k1, k2 with
\* lower(k1) = lower(k2), put(k1, r) then get(k2) returns r, and after
\* put(k2, r') exactly one entry, r', is stored for lower(k2), under the
\* key lower(k2) with its surrounding whitespace kept.
C13_LowerKeys ==
    [][/\ (GetAfterPut /\ lower(op'.key) = lower(op.key))
          => ret' = op.data
       /\ PlainPutStep
          => LET under == StoredUnder(sessionStorage', op'.key, FALSE)
             IN  /\ Cardinality(under) = 1
                 /\ \A i \in under :
                       /\ <<sessionStorage'.cache[1].a[i].data>> = op'.data
                       /\ sessionStorage'.cache[1].a[i].key = lower(op'.key)
      ]_vars

\* C13 witness: the only entry is stored under "a" and getAccountData("A"),
\* the second operation, returned it
C13_Witness ==
    /\ nops = 2
    /\ op.name = "getAccountData"
    /\ op.key = <<"A">>
    /\ sessionStorage.cache # NoItem
    /\ Len(sessionStorage.cache[1].a) = 1
    /\ sessionStorage.cache[1].a[1].key = <<"a">>
    /\ ret = <<sessionStorage.cache[1].a[1].data>>

\* the stored text deserializes into a store with its map of entries and
\* its metadata block
WellFormed(text) ==
    /\ Parseable(text)
    /\ "a" \in DOMAIN text
    /\ "g" \in DOMAIN text

\* C14 (as stated): getAccountData and getAllData never raise, and a read
\* (before the expiry) of a stored text that does not deserialize into a
\* well-formed store returns not-found and leaves the store cleared.
C14_CorruptionRecovery ==
    [][ReadStep
        => /\ ret' # <<TypeError>>
           /\ (/\ ~Expired(sessionStorage, now)
               /\ sessionStorage.cache # NoItem
               /\ ~WellFormed(sessionStorage.cache[1]))
              => (ret' = << >> /\ sessionStorage' = ClearedStorage)
      ]_vars

\* C26: after every setAccountData that commits, whether or not the cleanup
\* ran, the persisted totalAccounts is the number of persisted accounts and
\* the persisted totalTweets is the sum of their tweets.length.
C26_AggregateCounters ==
    (op.name = "setAccountData" /\ op.committed)
    => /\ sessionStorage.cache # NoItem
       /\ LET stored == sessionStorage.cache[1]
          IN  /\ stored.g.ta = Len(stored.a)
              /\ stored.g.tt = SumTweets(stored.a)
              /\ stored.g.ta = Cardinality({stored.a[i].key : i \in DOMAIN stored.a})

\* C26 witness: the third setAccountData on a store of one account ran the
\* cleanup, which dropped one of the four accounts, and committed; three
\* accounts with five tweets in all are persisted
C26_Witness ==
    /\ op.name = "setAccountData"
    /\ op.committed
    /\ op.evicted
    /\ sessionStorage.cache # NoItem
    /\ Len(sessionStorage.cache[1].a) = 3
    /\ sessionStorage.cache[1].g.ta = 3
    /\ sessionStorage.cache[1].g.tt = 5
    /\ nops = 3

\* the store holds, unexpired, at least one account
HoldsEntries(storage, t) ==
    /\ storage.cache # NoItem
    /\ ~Expired(storage, t)
    /\ Len(storage.cache[1].a) > 0

\* C27: when setItem raises a quota error inside setAccountData, the error
\* is recovered by eviction: setAccountData does not raise to the caller and
\* the accounts that were cached before the call are not all discarded (the
\* store is not left empty).
C27_QuotaRecovery ==
    [][(PutStep /\ ~op'.committed /\ HoldsEntries(sessionStorage, now))
       => /\ ret' = << >>
          /\ sessionStorage'.cache # NoItem
          /\ Len(sessionStorage'.cache[1].a) > 0]_vars

\* the time of the call of the setAccountData that op records
PutTime == op.data[1].collectionMetadata.collectionTime

\* C28: the expiry is one timestamp for the whole store: a committed
\* setAccountData of any key at time t sets it to t + CACHE_DURATION, and
\* until then getAccountData returns every account that is in the store,
\* the older ones as well as the one written, whatever their age.
C28_StoreWideExpiry ==
    (op.name = "setAccountData" /\ op.committed)
    => /\ sessionStorage.expiry = <<toString(PutTime + CACHE_DURATION)>>
       /\ now <= PutTime + CACHE_DURATION
          => \A i \in DOMAIN sessionStorage.cache[1].a :
                LET entry == sessionStorage.cache[1].a[i]
                IN  getAccountDataAt(sessionStorage, entry.key, now).data = <<entry.data>>

\* C28 witness: an account written first is still in the store and readable
\* at a time later than its own write + CACHE_DURATION, because a later
\* setAccountData of another key moved the expiry
C28_Witness ==
    /\ op.name = "setAccountData"
    /\ op.committed
    /\ now <= PutTime + CACHE_DURATION
    /\ \E i \in DOMAIN sessionStorage.cache[1].a :
          LET entry == sessionStorage.cache[1].a[i]
          IN  /\ entry.key # toLowerCase(op.key)
              /\ now > entry.data.collectionMetadata.collectionTime + CACHE_DURATION
              /\ getAccountDataAt(sessionStorage, entry.key, now).data = <<entry.data>>

\* C29: the cleanup never discards the account being written: after a
\* setAccountData(key, data) that ran the cleanup and committed,
\* getAccountData(key) before the expiry returns data, whatever the scores
\* of the other accounts in the store.
C29_WrittenEntryKept ==
    (/\ op.name = "setAccountData"
     /\ op.committed
     /\ op.evicted
     /\ ~Expired(sessionStorage, now))
    => getAccountDataAt(sessionStorage, op.key, now).data = op.data

(***************************************************************************)
(* Spec: one collection run by flow 1.  The collector never reads the      *)
(* clock itself; the clock is read by throttleRequest only, so in this     *)
(* specification it is advanced only while the flow waits inside the gate. *)
(***************************************************************************)
TickWaiting ==
    /\ \E f \in flows : tpc[f] = "sleep" /\ now < wakeAt[f]
    /\ Tick

Init ==
    /\ now = 1
    /\ flows = {Collector}
    /\ InitServiceVars
    /\ InitCacheVars
    /\ InitEvictVars

Next ==
    \/ TickWaiting
    \/ maximizeUserTweetCollection
    \/ throttleRequest(Collector)
    \/ throttleWake(Collector)
    \/ collectFetch
    \/ \E resp \in PageResponses : retryAttemptOk(resp)
    \/ \E c \in ErrorCodes : retryAttemptFail(c)
    \/ retryWake
    \/ collectPage
    \/ collectCatch
    \/ collectContinue

Spec == Init /\ [][Next]_vars

(***************************************************************************)
(* SpecRetry: direct calls of retryWithIntelligentBackoff with every       *)
(* maxRetries in 0..MaxAttempts.                                           *)
(***************************************************************************)
NextRetry ==
    \/ \E m \in 0..MaxAttempts : Execute(m)
    \/ \E resp \in PageResponses : retryAttemptOk(resp)
    \/ \E c \in ErrorCodes : retryAttemptFail(c)
    \/ retryWake

SpecRetry == Init /\ [][NextRetry]_vars

(***************************************************************************)
(* Properties of the collector (Spec).                                     *)
(***************************************************************************)
\* the raw tweets (id, media keys) of an assembled result
RawTweets(processed) ==
    [i \in 1..Len(processed) |->
        [id |-> processed[i].id, media_keys |-> processed[i].media_keys]]

LastFetch == fetches[Len(fetches)]

\* the fetches that have ended
Ended == {i \in DOMAIN fetches : fetches[i].out # "pending"}

\* C1: when N > 0 records have arrived and the next page fetch ends in an
\* error (429, fatal, or other), the collection has returned (it neither
\* raised nor went on) a result whose tweets are exactly the N arrived
\* records in arrival order, with metadata.totalCollected = N.
C1_NoDataLoss ==
    (Len(fetches) > 0 /\ LastFetch.out = "error" /\ Len(arrived) > 0)
    => /\ cpc = "done"
       /\ RawTweets(result.tweets) = arrived
       /\ result.metadata.totalCollected = Len(arrived)

\* C1 witness: two pages arrived, then a fetch ended in a rate-limit error
C1_Witness ==
    /\ cpc = "done"
    /\ Len(fetches) = 3
    /\ LastFetch.out = "error" /\ LastFetch.n = 429
    /\ Len(arrived) > tweetsPerPage
    /\ Len(result.tweets) = Len(arrived)

\* the last page fetch ended in an error other than 429 while no record had
\* been accumulated
AbortWithNoData ==
    /\ Len(fetches) > 0
    /\ LastFetch.out = "error"
    /\ LastFetch.n # 429
    /\ Len(arrived) = 0

AllFullPages ==
    \A i \in DOMAIN fetches : fetches[i].out = "page" /\ fetches[i].n = tweetsPerPage

\* number of full pages needed to reach the target: ceil(target / page size)
PagesToTarget == (targetTweetCount + tweetsPerPage - 1) \div tweetsPerPage

\* C3: once the arrived records number >= targetTweetCount the collection
\* is over (no further fetch is issued); the page that crossed the target
\* was appended whole and was the first to cross it; with full pages
\* exactly ceil(target / pageSize) pages are fetched and all their records
\* returned (3 pages and 300 records for target 250 and pages of 100).
C3_TargetStop ==
    /\ Len(arrived) >= targetTweetCount
       => /\ cpc = "done"
          /\ LastFetch.out = "page" /\ LastFetch.n > 0
          /\ Len(arrived) - LastFetch.n < targetTweetCount
          /\ RawTweets(result.tweets) = arrived
    /\ (cpc = "done" /\ AllFullPages /\ Len(fetches) >= PagesToTarget)
       => /\ Len(fetches) = PagesToTarget
          /\ Len(result.tweets) = PagesToTarget * tweetsPerPage

\* C3 witness: full pages only, the last one overshoots the target
C3_Witness ==
    /\ cpc = "done"
    /\ AllFullPages
    /\ Len(fetches) = PagesToTarget
    /\ Len(result.tweets) >= targetTweetCount
    /\ Len(result.tweets) = PagesToTarget * tweetsPerPage


\* the empty pages received since the last non-empty page
EmptySinceData ==
    {i \in Ended :
        /\ fetches[i].out = "page" /\ fetches[i].n = 0
        /\ \A j \in Ended : (j > i /\ fetches[j].out = "page") => fetches[j].n = 0}

\* the log is K non-empty pages followed by empty pages only, no errors
DataThenEmpty(K) ==
    /\ K <= Len(fetches)
    /\ Ended = DOMAIN fetches
    /\ \A i \in DOMAIN fetches :
          /\ fetches[i].out = "page"
          /\ (fetches[i].n > 0) <=> (i <= K)

\* C4: the empty-page counter is the number of empty pages since the last
\* non-empty page, and the empty-page stop fires exactly when it reaches
\* maxEmptyPages.  So when K non-empty pages are followed by empty pages
\* only, the collection returns after exactly K + maxEmptyPages fetches with
\* the records of the first K pages, unless the upstream withheld the
\* continuation token, or maxPages or the target was reached first.
C4_EmptyPageStop ==
    /\ cpc # "idle" => consecutiveEmptyPages = Cardinality(EmptySinceData)
    /\ consecutiveEmptyPages <= maxEmptyPages
    /\ consecutiveEmptyPages = maxEmptyPages
       => /\ cpc = "done"
          /\ LastFetch.out = "page" /\ LastFetch.n = 0
    /\ \A K \in 0..MaxFetches :
          DataThenEmpty(K) =>
             /\ Len(fetches) <= K + maxEmptyPages
             /\ Len(fetches) = K + maxEmptyPages
                => (cpc = "done" /\ RawTweets(result.tweets) = arrived)
             /\ (cpc = "done" /\ Len(fetches) < K + maxEmptyPages)
                => \/ nextToken = NoToken
                   \/ pagesProcessed >= maxPages
                   \/ Len(allTweets) >= targetTweetCount

\* C4 witness: one page of data, then three empty pages, then the stop
C4_Witness ==
    /\ cpc = "done"
    /\ DataThenEmpty(1)
    /\ Len(fetches) = 1 + maxEmptyPages
    /\ Len(result.tweets) = fetches[1].n

\* the page-fetch iterations that went through throttleRequest and handed
\* their fetch to retryWithIntelligentBackoff
Executed == Ended \cup {i \in DOMAIN fetches : i = Len(fetches) /\ cpc = "fetch"}

\* C5 (as stated): whatever the upstream returns, a collection makes at
\* most maxPages page-fetch iterations (one acquire and one execute each).
C5_MaxPagesBreaker ==
    Cardinality(Executed) <= maxPages

\* a 429 reaches the catch of the loop while nothing has been collected
RateLimitNoDataStep ==
    /\ cpc = "fetch" /\ rpc = "raised" /\ rpc' = "idle"
    /\ rerror.code = 429
    /\ allTweets = << >>

\* the wait after such a 429 ends
CooldownEndStep ==
    cpc = "cooldown" /\ cpc' # "cooldown"

\* C18: a 429 that surfaces from a page fetch while no record is collected
\* increments rateLimitHits, does not count a page and starts the cooldown;
\* when the cooldown ends, another page fetch with the same continuation
\* token is started, on the first page (no token yet) as on any other.
C18_RateLimitContinues ==
    [][/\ RateLimitNoDataStep
          => /\ rateLimitHits' = rateLimitHits + 1
             /\ pagesProcessed' = pagesProcessed
             /\ cpc' = "cooldown"
       /\ CooldownEndStep
          => /\ cpc' = "throttle"
             /\ pagesProcessed' = pagesProcessed
             /\ Len(fetches') = Len(fetches) + 1
             /\ fetches'[Len(fetches')].token = LastFetch.token]_vars

\* C19: every run of the collection ends and returns, for every behaviour of
\* upstream, given that each upstream call, throttle wait and sleep returns.
\* What an iteration does is fixed by the loop state it begins in and by
\* the answers of upstream, and upstream may give the same answers again,
\* so in a collection that always ends no iteration begins in the loop
\* state the iteration before it began in; in particular an empty page with
\* a continuation token followed by rate-limit errors does not bring the
\* loop round to where it was.
C19_Termination ==
    \A i \in DOMAIN fetches :
        i + 1 \in DOMAIN fetches => fetches[i + 1].loop # fetches[i].loop

\* the media keys of a processed tweet that its media list resolves
Resolved(tweet) ==
    {tweet.media[j].media_key : j \in DOMAIN tweet.media}

\* C20: the media objects of every page whose tweets were appended, the page
\* on which the target count is reached included, are in the pool when the
\* result is assembled: every returned tweet has each of its media keys
\* resolved (upstream delivers the object of a tweet's media key in the
\* includes of the tweet's own page).
C20_MediaAccumulated ==
    cpc = "done"
    => \A i \in DOMAIN result.tweets :
          /\ \A j \in DOMAIN result.tweets[i].media_keys :
                result.tweets[i].media_keys[j] \in Resolved(result.tweets[i])
          /\ result.tweets[i].has_media <=> result.tweets[i].media_keys # << >>

\* the iterations whose page fetch returned a response
Pages == {i \in DOMAIN fetches : fetches[i].out = "page"}

\* the last of them
LastPage == CHOOSE i \in Pages : \A j \in Pages : j <= i

\* C21: in the result of a collection that received at least one page,
\* metadata.hasMoreData is true exactly when the last page response received
\* carried a continuation token, whichever condition ended the loop.
C21_HasMoreData ==
    (cpc = "done" /\ Pages # {})
    => (result.metadata.hasMoreData <=> fetches[LastPage].next # NoToken)

\* C22: metadata.pagesProcessed of the result is the number of page fetches
\* that returned a response during the run, the page on which the target
\* stop or the empty-page stop fired included; fetches that ended in an
\* error are not counted.
C22_PageCount ==
    cpc = "done" => result.metadata.pagesProcessed = Cardinality(Pages)

\* the page-fetch iterations whose throttleRequest call has completed
Acquired ==
    {i \in DOMAIN fetches :
        i < Len(fetches) \/ cpc # "throttle" \/ tpc[Collector] = "ret"}

\* a step taken while retryWithIntelligentBackoff runs or that ends it
ExecuteStep ==
    rpc \in {"attempt", "sleep"}

\* C24: retryWithIntelligentBackoff neither reads nor writes the gate: no
\* step of it changes requestCount or windowStartTime or completes a
\* throttleRequest; the collection calls throttleRequest once before each
\* page fetch, so the throttleRequest calls completed are one per page-fetch
\* iteration, however many attempts (rate-limited ones included) the fetch
\* of a page takes.
C24_RetriesLeaveGate ==
    [][/\ ExecuteStep => UNCHANGED <<requestCount, windowStartTime, completions>>
       /\ Len(completions') = Cardinality(Acquired')
       /\ IF Len(completions') > Len(completions)
          THEN requestCount' \in {requestCount + 1, 1}
          ELSE requestCount' \in {requestCount, 0}]_vars

\* C24 witness: the second page fetch took two attempts, the first of them
\* rate-limited, and throttleRequest has completed twice
C24_Witness ==
    /\ cpc = "fetch"
    /\ rpc = "returned"
    /\ Len(fetches) = 2
    /\ Len(opLog) = 2
    /\ opLog[1].code = 429
    /\ Len(completions) = 2
    /\ requestCount = 2

(***************************************************************************)
(* Properties of the retry policy (SpecRetry).                             *)
(***************************************************************************)
FatalCodes == {401, 403, 404}

\* C6: an error of code 401, 403 or 404 ends the call: the operation is not
\* invoked again, no sleep follows that attempt, and the error thrown is
\* that error; an operation that fails so at once is invoked exactly once.
C6_FatalNotRetried ==
    \A i \in DOMAIN opLog :
        opLog[i].code \in FatalCodes
        => /\ i = Len(opLog)
           /\ rpc = "raised"
           /\ rerror = [code |-> opLog[i].code]
           /\ \A k \in DOMAIN sleeps : sleeps[k].after < i

\* C6 witness: with maxRetries = 3, a fatal error on the second attempt
C6_Witness ==
    /\ maxRetries = MaxAttempts
    /\ Len(opLog) = 2
    /\ opLog[1].code = 500
    /\ opLog[2].code \in FatalCodes
    /\ rpc = "raised"
    /\ Len(sleeps) = 1

\* every invocation so far failed with a code other than 429/401/403/404
AllTransientOther ==
    \A i \in DOMAIN opLog : opLog[i].code \notin ({0, 429} \cup FatalCodes)

\* C7: the operation is never invoked more than maxRetries times, and when
\* every invocation fails with a TransientOther error the call is still
\* going on until the maxRetries-th invocation and then throws the error of
\* that last invocation (for maxRetries >= 1).
C7_RetryExhaustion ==
    /\ maxRetries >= 1 => Len(opLog) <= maxRetries
    /\ (maxRetries >= 1 /\ AllTransientOther /\ rpc # "idle")
       => /\ rpc # "returned"
          /\ rpc = "raised" <=> Len(opLog) = maxRetries
          /\ rpc = "raised" => rerror = [code |-> opLog[Len(opLog)].code]

\* C7 witness: maxRetries = 3 and three invocations that failed with 500
C7_Witness ==
    /\ maxRetries = MaxAttempts
    /\ Len(opLog) = MaxAttempts
    /\ AllTransientOther
    /\ rpc = "raised"
    /\ rerror = [code |-> 500]

\* the call gave up: maxRetries invocations failed, the last one with an
\* error that is retried
Exhausted ==
    /\ rpc = "raised"
    /\ maxRetries >= 1
    /\ Len(opLog) = maxRetries
    /\ opLog[Len(opLog)].code \notin FatalCodes

\* C23: when the call gives up after maxRetries failed attempts, the value
\* it throws is the last attempt's error annotated with the attempt count
\* and the operation name: it carries both, it is not the upstream error
\* unchanged.
C23_AnnotatedExhaustion ==
    Exhausted
    => /\ rerror.code = opLog[Len(opLog)].code
       /\ {"attempts", "operationName"} \subseteq DOMAIN rerror
       /\ rerror.attempts = maxRetries
       /\ rerror # [code |-> opLog[Len(opLog)].code]

\* C25: between failed attempt k and attempt k + 1 (k < maxRetries) the call
\* sleeps once: rateLimitWait if attempt k failed with 429, baseDelay * k
\* if it failed with another retried error; it never sleeps after the last
\* attempt or after a 401/403/404, and an operation that always fails with
\* 429 is invoked exactly maxRetries times before the 429 is thrown.
C25_DelaySchedule ==
    /\ \A k \in DOMAIN sleeps :
          /\ sleeps[k].after = k
          /\ k < maxRetries
          /\ k \in DOMAIN opLog
          /\ opLog[k].code \notin (FatalCodes \cup {0})
          /\ sleeps[k].ms = IF opLog[k].code = 429 THEN rateLimitWait
                            ELSE baseDelay * k
    /\ \A i \in DOMAIN opLog :
          (i < Len(opLog) \/ rpc \in {"sleep", "attempt"}) => i \in DOMAIN sleeps
    /\ (rpc = "raised" /\ maxRetries >= 1 /\ \A i \in DOMAIN opLog : opLog[i].code = 429)
       => /\ Len(opLog) = maxRetries
          /\ rerror.code = 429
          /\ Len(sleeps) = maxRetries - 1

\* C25 witness: with maxRetries = 3, a 429, then a 500, then a 500 that is
\* thrown: one sleep of rateLimitWait and one of baseDelay * 2
C25_Witness ==
    /\ maxRetries = MaxAttempts
    /\ rpc = "raised"
    /\ Len(opLog) = MaxAttempts
    /\ opLog[1].code = 429
    /\ opLog[2].code = 500
    /\ sleeps = <<[after |-> 1, ms |-> rateLimitWait], [after |-> 2, ms |-> baseDelay * 2]>>

(***************************************************************************)
(* SpecMedia: the media merge of lines 1177-1202 applied to any collected  *)
(* tweets and any media pool: up to MaxMedia media keys per tweet, up to   *)
(* MaxMedia objects in the pool, keys with and without a match, repeated   *)
(* keys and repeated objects.                                              *)
(***************************************************************************)
MediaKeys == {"k1", "k2", "k3"}

\* the sequences over S of length 0..n
SeqsUpTo(S, n) == UNION {[1..k -> S] : k \in 0..n}

\* numbers of tweets handed to the merge
MergeCounts == {1, 2}

InitMedia ==
    /\ now = 1
    /\ flows = {Collector}
    /\ InitGateVars
    /\ InitStatusVars
    /\ InitUpVars
    /\ InitRetryVars
    /\ InitCacheVars
    /\ InitEvictVars
    /\ cpc = "merge"
    /\ \E n \in MergeCounts :
          \E keys \in [1..n -> SeqsUpTo(MediaKeys, MaxMedia)] :
             allTweets = [i \in 1..n |-> [id |-> i, media_keys |-> keys[i]]]
    /\ \E pool \in SeqsUpTo(MediaKeys, MaxMedia) :
          allMediaIncludes = [j \in DOMAIN pool |-> [media_key |-> pool[j]]]
    /\ errors = << >>
    /\ nextToken = NoToken
    /\ pagesProcessed = 1
    /\ rateLimitHits = 0
    /\ hasMoreData = FALSE
    /\ shouldStop = FALSE
    /\ consecutiveEmptyPages = 0
    /\ result = NoResult
    /\ fetches = << >>
    /\ arrived = allTweets

\* lines 1150-1232 on their own: the result is assembled from the tweets and
\* the pool collected
processedTweets ==
    /\ cpc = "merge"
    /\ cpc' = "done"
    /\ result' = Assemble(allTweets, allMediaIncludes, errors, pagesProcessed,
                          rateLimitHits, hasMoreData)
    /\ UNCHANGED <<allTweets, allMediaIncludes, errors, nextToken, pagesProcessed,
                   rateLimitHits, hasMoreData, shouldStop, consecutiveEmptyPages,
                   fetches, arrived>>
    /\ UNCHANGED <<now, flows, gateVars, upVars, retryVars>>
    /\ UNCHANGED <<storeVars, statusVars>>

NextMedia == processedTweets

SpecMedia == InitMedia /\ [][NextMedia]_vars

\* the keys of the objects of a pool
PoolKeys(pool) == {pool[j].media_key : j \in DOMAIN pool}

\* the keys among `keys` that some object of the pool carries, in order
RECURSIVE Matching(_, _)
Matching(keys, pool) ==
    IF keys = << >> THEN << >>
    ELSE (IF Head(keys) \in PoolKeys(pool) THEN <<Head(keys)>> ELSE << >>)
         \o Matching(Tail(keys), pool)

\* C30: for every tweet the assembled media list holds, in the order of the
\* tweet's media keys, exactly one reference for each key that an object of
\* the pool carries and nothing for a key that none carries; a key without
\* a match adds no error; has_media is true exactly when at least one key
\* was resolved; the number and the order of the tweets are unchanged.
C30_MediaResolution ==
    cpc = "done"
    => /\ Len(result.tweets) = Len(allTweets)
       /\ result.metadata.errors = errors
       /\ \A i \in DOMAIN allTweets :
             LET out == result.tweets[i]
             IN  /\ out.id = allTweets[i].id
                 /\ out.media_keys = allTweets[i].media_keys
                 /\ [j \in DOMAIN out.media |-> out.media[j].media_key]
                       = Matching(allTweets[i].media_keys, allMediaIncludes)
                 /\ out.has_media
                       <=> \E j \in DOMAIN allTweets[i].media_keys :
                              allTweets[i].media_keys[j] \in PoolKeys(allMediaIncludes)

\* C30 witness: two tweets were merged; the first carries a key without a
\* match followed by a key with one and ends with that one reference; the
\* second carries only a key without a match and ends with has_media false
C30_Witness ==
    /\ cpc = "done"
    /\ Len(result.tweets) = 2
    /\ allTweets[1].media_keys = <<"k1", "k2">>
    /\ allTweets[2].media_keys = <<"k3">>
    /\ PoolKeys(allMediaIncludes) = {"k2"}
    /\ Len(allMediaIncludes) = 2
    /\ result.tweets[1].media = <<[media_key |-> "k2"]>>
    /\ result.tweets[1].has_media
    /\ result.tweets[2].media = << >>
    /\ ~result.tweets[2].has_media
    /\ result.metadata.errors = << >>

(***************************************************************************)
(* SpecGate: one flow calling throttleRequest with arbitrary gaps.         *)
(***************************************************************************)
InitGate ==
    /\ now = 1
    /\ flows = {"f1"}
    /\ InitServiceVars
    /\ InitCacheVars
    /\ InitEvictVars

NextGate ==
    \/ Tick
    \/ \E f \in Flows : AcquireCall(f)
    \/ \E f \in Flows : throttleRequest(f)
    \/ \E f \in Flows : throttleWake(f)

SpecGate == InitGate /\ [][NextGate]_vars

(***************************************************************************)
(* SpecShared: two flows calling throttleRequest of one service instance,  *)
(* interleaved at the await of line 842.                                   *)
(***************************************************************************)
InitShared ==
    /\ now = 1
    /\ flows = Flows
    /\ InitServiceVars
    /\ InitCacheVars
    /\ InitEvictVars

SpecShared == InitShared /\ [][NextGate]_vars

(***************************************************************************)
(* SpecStatus: one flow calling throttleRequest, and another calling       *)
(* getQuotaStatus at any moment in between, also while the first is        *)
(* suspended.                                                              *)
(***************************************************************************)
NextStatus ==
    \/ NextGate
    \/ getQuotaStatus

SpecStatus == InitGate /\ [][NextStatus]_vars

\* a step in which flow f comes back from the sleep of line 842 and runs
\* lines 843-850
WakeStep(f) ==
    /\ tpc[f] = "sleep"
    /\ tpc'[f] = "ret"

\* C15 (as stated): with several flows on one gate, the reset a flow makes
\* after its sleep never overwrites an increment of another flow: it zeroes
\* count only when the window the count belongs to has run out.
C15_SharedGateAtomic ==
    [][\A f \in flows :
          WakeStep(f)
          => \/ requestCount = 0
             \/ now - windowStartTime >= fifteenMinutes
      ]_vars

\* C16: in every state of the gate, also while flows are suspended inside
\* throttleRequest, 0 <= requestCount <= MAX_REQUESTS_PER_15_MINUTES, so
\* what getQuotaStatus reports in that state has used <= total and
\* remaining >= 0.
C16_RequestWindow ==
    /\ 0 <= requestCount
    /\ requestCount <= MAX_REQUESTS_PER_15_MINUTES
    /\ LET st == getQuotaStatusAt(requestCount, windowStartTime, now)
       IN  /\ st.used <= st.total
           /\ st.remaining >= 0
           /\ st.canMakeMoreRequests <=> st.used < st.total

\* C16 witness: both flows are suspended inside throttleRequest with the
\* window full, after an earlier wait and reset; getQuotaStatus reports no
\* quota left
C16_Witness ==
    /\ \A f \in Flows : f \in flows /\ tpc[f] = "sleep"
    /\ requestCount = MAX_REQUESTS_PER_15_MINUTES
    /\ Len(completions) > MAX_REQUESTS_PER_15_MINUTES
    /\ getQuotaStatusAt(requestCount, windowStartTime, now).remaining = 0
    /\ ~getQuotaStatusAt(requestCount, windowStartTime, now).canMakeMoreRequests

\* a step that is a call of getQuotaStatus
StatusStep ==
    quotaStatus' = <<getQuotaStatusAt(requestCount', windowStartTime', now')>>
    /\ UNCHANGED <<now, tpc, completions>>

\* C17: a call of getQuotaStatus, in any gate state and between the steps
\* of the throttleRequest calls of the flows, leaves requestCount and
\* windowStartTime as they were: it neither initializes nor rolls over the
\* window.
C17_StatusPureRead ==
    [][StatusStep => UNCHANGED <<requestCount, windowStartTime>>]_vars

\* C17 witness: getQuotaStatus was called before the window was initialized,
\* and again after the window had run out, and the window state is as it was
C17_Witness ==
    /\ quotaStatus # << >>
    /\ quotaStatus[1].windowElapsed >= fifteenMinutes
    /\ windowStartTime > 0
    /\ now - windowStartTime >= fifteenMinutes
    /\ requestCount = quotaStatus[1].used
    /\ requestCount > 0

\* number of completions whose time lies in the rolling interval [t, t + fifteenMinutes)
InRolling(t) ==
    Cardinality({i \in DOMAIN completions :
                    /\ t <= completions[i].at
                    /\ completions[i].at < t + fifteenMinutes})

\* number of completions made in the fixed window that started at w
InWindow(w) ==
    Cardinality({i \in DOMAIN completions : completions[i].window = w})

\* C2 (as stated): in every rolling interval of length windowDurationMs at
\* most maxRequestsPerWindow acquires complete.
C2_RollingWindow ==
    \A t \in 0..MaxTime : InRolling(t) <= MAX_REQUESTS_PER_15_MINUTES

\* C2 (amended): the gate counts per fixed window.  Every completion lies in
\* the window [windowStart, windowStart + windowDurationMs) it was counted
\* in, no such window holds more than maxRequestsPerWindow completions, and a
\* rolling interval, which can straddle one reset, holds at most
\* 2 * maxRequestsPerWindow - 1.
C2_FixedWindow ==
    /\ \A i \in DOMAIN completions :
          /\ completions[i].window <= completions[i].at
          /\ completions[i].at < completions[i].window + fifteenMinutes
          /\ InWindow(completions[i].window) <= MAX_REQUESTS_PER_15_MINUTES
    /\ \A t \in 0..MaxTime : InRolling(t) <= 2 * MAX_REQUESTS_PER_15_MINUTES - 1

\* C2 witness: a full window was followed by a wait and a reset, and a
\* further window was filled.
C2_Witness ==
    \E i, j \in DOMAIN completions :
        /\ i < j
        /\ completions[i].window < completions[j].window
        /\ InWindow(completions[i].window) = MAX_REQUESTS_PER_15_MINUTES
        /\ completions[j].at = completions[j].window
        /\ InWindow(completions[j].window) = MAX_REQUESTS_PER_15_MINUTES

=============================================================================
